---- MODULE Spec2Model ----
(***************************************************************************)
(* Model of the Vec toolkit (src/vec.h): sort_indices, reorder,            *)
(* reorder_destructive, remove_intersection and RemoveDuplicates.          *)
(*                                                                         *)
(* std::vector<T> is a function on 0..n-1 for the permutation engine (the  *)
(* code's indices are kept as they are) and a sequence for the set         *)
(* filters (which use no index).  The two reorder loops are modelled one   *)
(* loop iteration per step; the other functions are single steps.          *)
(***************************************************************************)
EXTENDS Integers, Sequences, FiniteSets

\* ---- bounds of the model ------------------------------------------------
MaxLen == 3
MaxVal == 3
MaxKey == 2
MaxCalls == 2
\* An element value x of T stands for the number x / Denom, so that T has
\* values that are not whole numbers (T = float, double).
Denom == 2

\* (diff_t) -1, the mark reorder_destructive writes into the order buffer
Consumed == -1

Vals == 0..MaxVal
Keys == 0..MaxKey

VARIABLES
    pc,            \* position of the running program
    v, order,      \* reorder's arguments
    done, i, j, prev_j,                 \* reorder's locals
    v_d, order_begin,                   \* reorder_destructive's value and order buffers
    s, d, temp, remaining,              \* reorder_destructive's locals
    keys,          \* sort_indices' argument
    a, b,          \* remove_intersection's arguments
    v_dup, ret,    \* RemoveDuplicates' argument and the values it returned
    v0, order0, keys0, a0, b0, v_dup0   \* the arguments as they were at the call

vars == <<pc, v, order, done, i, j, prev_j, v_d, order_begin, s, d, temp,
          remaining, keys, a, b, v_dup, ret, v0, order0, keys0, a0, b0, v_dup0>>

permVars   == <<v, order, done, i, j, prev_j>>
destrVars  == <<v_d, order_begin, s, d, temp, remaining>>
filterVars == <<a, b, v_dup, ret>>
ghostVars  == <<v0, order0, keys0, a0, b0, v_dup0>>

\* ---- std::vector helpers --------------------------------------------------
Size(f) == Cardinality(DOMAIN f)

Vectors(S) == UNION {[0..(n - 1) -> S] : n \in 0..MaxLen}

Sequences(S) == UNION {[1..n -> S] : n \in 0..MaxLen}

IsBijection(f) ==
    /\ \A k \in DOMAIN f : f[k] \in DOMAIN f
    /\ \A k1, k2 \in DOMAIN f : f[k1] = f[k2] => k1 = k2

Empty == [k \in {} |-> 0]

\* an assignment f[x] = f[y] where the code swaps
Assign(f, x, y) == [f EXCEPT ![x] = f[y]]

\* std::swap of two elements of one vector
Swap(f, x, y) == [f EXCEPT ![x] = f[y], ![y] = f[x]]

\* ---- sort_indices ---------------------------------------------------------
\* std::iota(idx.begin(), idx.end(), 0) on a vector of n elements
iota(n) == [k \in 1..n |-> k - 1]

\* the comparison lambda with its operator written <= : ties are reordered
Comp_LessEq(vk, i1, i2) == vk[i1] <= vk[i2]

\* [&v](size_t i1, size_t i2) {return v[i1] < v[i2];}
Comp(vk, i1, i2) == vk[i1] < vk[i2]

\* std::stable_sort's insertion step: x moves left past every element y of
\* the sorted prefix for which Comp(x, y), and stops at the first it is not
\* less than.
RECURSIVE LinearInsert(_, _, _)
LinearInsert(sorted, x, vk) ==
    IF sorted = <<>> THEN <<x>>
    ELSE LET y == sorted[Len(sorted)] IN
         IF Comp(vk, x, y)
         THEN Append(LinearInsert(SubSeq(sorted, 1, Len(sorted) - 1), x, vk), y)
         ELSE Append(sorted, x)

RECURSIVE stable_sort(_, _, _)
stable_sort(sorted, rest, vk) ==
    IF rest = <<>> THEN sorted
    ELSE stable_sort(LinearInsert(sorted, Head(rest), vk), Tail(rest), vk)

sort_indices(vk) ==
    LET idx == stable_sort(<<>>, iota(Size(vk)), vk)
    IN  [k \in 0..(Size(vk) - 1) |-> idx[k + 1]]

\* ---- remove_intersection --------------------------------------------------
\* the conversion of a T to the int the multiset stores and the predicate
\* takes: truncation toward zero
ToInt(x) == x \div Denom

\* st.count(k) after st.insert(a...) and st.insert(b...)
StCount(sa, sb, k) ==
    Cardinality({q \in DOMAIN sa : ToInt(sa[q]) = k})
  + Cardinality({q \in DOMAIN sb : ToInt(sb[q]) = k})

remove_intersection(sa, sb) ==
    LET predicate(x) == StCount(sa, sb, ToInt(x)) > 1
        keep(x) == ~predicate(x)
    IN  SelectSeq(sa, keep)

\* ---- RemoveDuplicates -----------------------------------------------------
\* the predicate without its seen.insert(value)
RECURSIVE remove_if_NoInsert(_, _, _)
remove_if_NoInsert(rest, seen, out) ==
    IF rest = <<>> THEN out
    ELSE LET value == Head(rest) IN
         IF value \in seen
         THEN remove_if_NoInsert(Tail(rest), seen, out)
         ELSE remove_if_NoInsert(Tail(rest), seen, Append(out, value))

\* std::remove_if with the predicate of lines 117-124, followed by v.erase:
\* the elements the predicate rejects are dropped, the others kept in order
RECURSIVE remove_if(_, _, _)
remove_if(rest, seen, out) ==
    IF rest = <<>> THEN out
    ELSE LET value == Head(rest) IN
         IF value \in seen
         THEN remove_if(Tail(rest), seen, out)
         ELSE remove_if(Tail(rest), seen \cup {value}, Append(out, value))

RemoveDuplicates(vec) == remove_if(vec, {}, <<>>)

\* ---- initial states: the arguments of the calls ----------------------------
Idle ==
    /\ done = Empty /\ i = 0 /\ j = 0 /\ prev_j = 0
    /\ s = 0 /\ d = 0 /\ temp = 0 /\ remaining = 0
    /\ ret = <<>>

\* reorder(v, order) and then reorder_destructive(p.begin(), p.end(), w.begin())
\* on equal copies w of v and p of order
InitPerm ==
    /\ pc = "r_call"
    /\ v0 \in Vectors(Vals)
    /\ order0 \in {f \in [DOMAIN v0 -> DOMAIN v0] : IsBijection(f)}
    /\ v = v0 /\ v_d = v0
    /\ order = order0 /\ order_begin = order0
    /\ keys = Empty /\ keys0 = Empty
    /\ a = <<>> /\ b = <<>> /\ a0 = <<>> /\ b0 = <<>>
    /\ v_dup = <<>> /\ v_dup0 = <<>>
    /\ Idle

\* idx = sort_indices(keys) and then reorder(v, idx)
InitSort ==
    /\ pc = "sort"
    /\ keys0 \in Vectors(Keys)
    /\ v0 \in [DOMAIN keys0 -> Vals]
    /\ keys = keys0 /\ v = v0
    /\ order = Empty /\ order0 = Empty
    /\ v_d = Empty /\ order_begin = Empty
    /\ a = <<>> /\ b = <<>> /\ a0 = <<>> /\ b0 = <<>>
    /\ v_dup = <<>> /\ v_dup0 = <<>>
    /\ Idle

\* remove_intersection(a, b)
InitIntersect ==
    /\ pc = "ri_call"
    /\ a0 \in Sequences(Vals) /\ b0 \in Sequences(Vals)
    /\ a = a0 /\ b = b0
    /\ v0 = Empty /\ order0 = Empty /\ v = Empty /\ order = Empty
    /\ v_d = Empty /\ order_begin = Empty
    /\ keys = Empty /\ keys0 = Empty
    /\ v_dup = <<>> /\ v_dup0 = <<>>
    /\ Idle

\* RemoveDuplicates(v), called up to MaxCalls times on the same vector
InitDedup ==
    /\ pc = "rd_call"
    /\ v_dup0 \in Sequences(Vals)
    /\ v_dup = v_dup0
    /\ v0 = Empty /\ order0 = Empty /\ v = Empty /\ order = Empty
    /\ v_d = Empty /\ order_begin = Empty
    /\ keys = Empty /\ keys0 = Empty
    /\ a = <<>> /\ b = <<>> /\ a0 = <<>> /\ b0 = <<>>
    /\ Idle

\* ---- sort_indices, called with keys; its result is reorder's order ---------
SortIndices ==
    /\ pc = "sort"
    /\ order' = sort_indices(keys)
    /\ pc' = "r_call"
    /\ UNCHANGED <<v, done, i, j, prev_j, keys>>
    /\ UNCHANGED <<destrVars, filterVars, ghostVars>>

\* ---- reorder --------------------------------------------------------------
\* std::vector<bool> done(v.size());  for (std::size_t i = 0; ...
R_Enter ==
    /\ pc = "r_call"
    /\ done' = [k \in DOMAIN v |-> FALSE]
    /\ i' = 0
    /\ pc' = "r_for"
    /\ UNCHANGED <<v, order, j, prev_j, keys>>
    /\ UNCHANGED <<destrVars, filterVars, ghostVars>>

\* one test of i < v.size() and the body up to the while loop
R_For ==
    /\ pc = "r_for"
    /\ IF i < Size(v)
       THEN IF done[i]
            THEN /\ i' = i + 1
                 /\ UNCHANGED <<done, j, prev_j, pc>>
            ELSE /\ done' = [done EXCEPT ![i] = TRUE]
                 /\ prev_j' = i
                 /\ j' = order[i]
                 /\ pc' = "r_while"
                 /\ UNCHANGED i
       ELSE /\ pc' = "r_ret"
            /\ UNCHANGED <<done, i, j, prev_j>>
    /\ UNCHANGED <<v, order, keys>>
    /\ UNCHANGED <<destrVars, filterVars, ghostVars>>

\* the while loop with std::swap(v[i], v[j]) for std::swap(v[prev_j], v[j])
R_While_SwapI ==
    /\ pc = "r_while"
    /\ IF i # j
       THEN /\ v' = Swap(v, i, j)
            /\ done' = [done EXCEPT ![j] = TRUE]
            /\ prev_j' = j
            /\ j' = order[j]
            /\ UNCHANGED <<i, pc>>
       ELSE /\ i' = i + 1
            /\ pc' = "r_for"
            /\ UNCHANGED <<v, done, j, prev_j>>
    /\ UNCHANGED <<order, keys>>
    /\ UNCHANGED <<destrVars, filterVars, ghostVars>>

\* the while loop without its j = order[j]
R_While_Stuck ==
    /\ pc = "r_while"
    /\ IF i # j
       THEN /\ v' = Swap(v, prev_j, j)
            /\ done' = [done EXCEPT ![j] = TRUE]
            /\ prev_j' = j
            /\ UNCHANGED <<i, j, pc>>
       ELSE /\ i' = i + 1
            /\ pc' = "r_for"
            /\ UNCHANGED <<v, done, j, prev_j>>
    /\ UNCHANGED <<order, keys>>
    /\ UNCHANGED <<destrVars, filterVars, ghostVars>>

\* one test of i != j and one pass of the while body, or the ++i that
\* follows the loop
R_While ==
    /\ pc = "r_while"
    /\ IF i # j
       THEN /\ v' = Swap(v, prev_j, j)
            /\ done' = [done EXCEPT ![j] = TRUE]
            /\ prev_j' = j
            /\ j' = order[j]
            /\ UNCHANGED <<i, pc>>
       ELSE /\ i' = i + 1
            /\ pc' = "r_for"
            /\ UNCHANGED <<v, done, j, prev_j>>
    /\ UNCHANGED <<order, keys>>
    /\ UNCHANGED <<destrVars, filterVars, ghostVars>>

\* ---- reorder_destructive --------------------------------------------------
\* diff_t remaining = order_end - 1 - order_begin;  index_t s = index_t()
D_Enter ==
    /\ pc = "r_ret"
    /\ remaining' = Size(order_begin) - 1
    /\ s' = 0
    /\ pc' = "d_for"
    /\ UNCHANGED <<v_d, order_begin, d, temp>>
    /\ UNCHANGED <<permVars, keys, filterVars, ghostVars>>

\* one test of remaining > 0 and the body up to the inner loop
D_For ==
    /\ pc = "d_for"
    /\ IF remaining > 0
       THEN IF order_begin[s] = Consumed
            THEN /\ d' = order_begin[s]
                 /\ s' = s + 1
                 /\ UNCHANGED <<remaining, temp, pc>>
            ELSE /\ d' = order_begin[s]
                 /\ remaining' = remaining - 1
                 /\ temp' = v_d[s]
                 /\ pc' = "d_cycle"
                 /\ UNCHANGED s
       ELSE /\ pc' = "done"
            /\ UNCHANGED <<s, d, temp, remaining>>
    /\ UNCHANGED <<v_d, order_begin>>
    /\ UNCHANGED <<permVars, keys, filterVars, ghostVars>>

\* the inner loop with v[d] = temp for std::swap(temp, v[d])
D_Cycle_Copy ==
    /\ pc = "d_cycle"
    /\ IF d # s
       THEN /\ v_d' = [v_d EXCEPT ![d] = temp]
            /\ order_begin' = [order_begin EXCEPT ![d] = Consumed]
            /\ d' = order_begin[d]
            /\ remaining' = remaining - 1
            /\ UNCHANGED <<temp, s, pc>>
       ELSE /\ v_d' = [v_d EXCEPT ![s] = temp]
            /\ s' = s + 1
            /\ pc' = "d_for"
            /\ UNCHANGED <<order_begin, d, temp, remaining>>
    /\ UNCHANGED <<permVars, keys, filterVars, ghostVars>>

\* one test of d != s and one pass of the inner body (d2 takes the old
\* order_begin[d], order_begin[d] takes -1, d takes d2), or the v[s] = temp
\* and ++s that follow the loop
D_Cycle ==
    /\ pc = "d_cycle"
    /\ IF d # s
       THEN /\ temp' = v_d[d]
            /\ v_d' = [v_d EXCEPT ![d] = temp]
            /\ order_begin' = [order_begin EXCEPT ![d] = Consumed]
            /\ d' = order_begin[d]
            /\ remaining' = remaining - 1
            /\ UNCHANGED <<s, pc>>
       ELSE /\ v_d' = [v_d EXCEPT ![s] = temp]
            /\ s' = s + 1
            /\ pc' = "d_for"
            /\ UNCHANGED <<order_begin, d, temp, remaining>>
    /\ UNCHANGED <<permVars, keys, filterVars, ghostVars>>

\* ---- the set filters ------------------------------------------------------
\* remove_intersection(a, b): a is filtered; the line that would filter b
\* is commented out
RemoveIntersection ==
    /\ pc = "ri_call"
    /\ a' = remove_intersection(a, b)
    /\ b' = b
    /\ pc' = "ri_ret"
    /\ UNCHANGED <<v_dup, ret>>
    /\ UNCHANGED <<permVars, destrVars, keys, ghostVars>>

\* RemoveDuplicates(v): v is filtered and v.size() returned
RemoveDuplicatesCall ==
    /\ pc = "rd_call"
    /\ Len(ret) < MaxCalls
    /\ v_dup' = RemoveDuplicates(v_dup)
    /\ ret' = Append(ret, <<v_dup', Len(v_dup')>>)
    /\ UNCHANGED <<pc, a, b>>
    /\ UNCHANGED <<permVars, destrVars, keys, ghostVars>>

\* ---- specifications -------------------------------------------------------
NextPerm == R_Enter \/ R_For \/ R_While \/ D_Enter \/ D_For \/ D_Cycle

NextSort == SortIndices \/ R_Enter \/ R_For \/ R_While

NextIntersect == RemoveIntersection

NextDedup == RemoveDuplicatesCall

Spec == InitPerm /\ [][NextPerm]_vars

\* the calls are straight-line single-threaded code: a step that can be
\* taken is taken
FairSpec == InitPerm /\ [][NextPerm]_vars /\ WF_vars(NextPerm)

SpecSort == InitSort /\ [][NextSort]_vars

SpecIntersect == InitIntersect /\ [][NextIntersect]_vars

SpecDedup == InitDedup /\ [][NextDedup]_vars

\* ---- properties -----------------------------------------------------------
N == Size(v0)

ReorderReturned == pc \in {"r_ret", "d_for", "d_cycle", "done"}

DestructiveReturned == pc = "done"

\* the number of elements of f equal to x
Occurrences(f, x) == Cardinality({k \in DOMAIN f : f[k] = x})

Range(f) == {f[k] : k \in DOMAIN f}

\* C1: after reorder(v, order) returns, v[k] is the value that was at
\* order[k] for every k in [0,n), and order holds what it held at the call.
C1_ReorderGathers ==
    ReorderReturned =>
        /\ DOMAIN v = DOMAIN v0
        /\ \A k \in DOMAIN v0 : v[k] = v0[order0[k]]
        /\ order = order0

C1_Witness ==
    /\ pc = "r_ret"
    /\ v0 = [k \in 0..2 |-> k]
    /\ order0 = [k \in 0..2 |-> (k + 1) % 3]
    /\ v = [k \in 0..2 |-> (k + 1) % 3]

\* C2: reorder on one copy of v and reorder_destructive on an equal copy,
\* with equal permutations, leave the same sequence of values.
C2_SameResult == DestructiveReturned => v_d = v

\* C4: after reorder_destructive returns, every entry of the order buffer
\* holds the consumed mark -1.
C4_AllConsumed ==
    DestructiveReturned =>
        \A k \in DOMAIN order_begin : order_begin[k] = Consumed

\* C5: reorder and reorder_destructive leave in v the multiset of values
\* that was in v at the call.
C5_MultisetKept ==
    /\ ReorderReturned =>
           \A x \in Vals : Occurrences(v, x) = Occurrences(v0, x)
    /\ DestructiveReturned =>
           \A x \in Vals : Occurrences(v_d, x) = Occurrences(v0, x)

C5_Witness ==
    /\ pc = "done"
    /\ v0 = [k \in 0..2 |-> IF k = 2 THEN 0 ELSE 1]
    /\ order0 = [k \in 0..2 |-> (k + 2) % 3]
    /\ v # v0
    /\ v_d # v0

\* C9: reorder and reorder_destructive terminate for every n >= 0, every
\* index they use to read or write order and v lies in [0,n), and the scan
\* of reorder_destructive stops before s reaches n.
IndexInv ==
    /\ pc = "r_for" => i \in 0..N
    /\ pc = "r_while" => /\ i \in 0..(N - 1)
                         /\ j \in 0..(N - 1)
                         /\ prev_j \in 0..(N - 1)
    /\ (pc = "d_for" /\ remaining > 0) => s \in 0..(N - 1)
    /\ pc = "d_cycle" => /\ s \in 0..(N - 1)
                         /\ d \in 0..(N - 1)
    /\ (pc \in {"d_for", "d_cycle", "done"} /\ N > 0) => s \in 0..(N - 1)

C9_TerminatesInBounds == []IndexInv /\ <>DestructiveReturned

C9_Witness ==
    /\ pc = "d_cycle"
    /\ N = 3
    /\ order0 = [k \in 0..2 |-> (k + 1) % 3]
    /\ s = 0 /\ d = 1
    /\ remaining = 1

\* C10: after reorder_destructive returns, the value that was at position
\* k is at position order[k], for every k in [0,n).
C10_DestructiveScatters ==
    DestructiveReturned =>
        /\ DOMAIN v_d = DOMAIN v0
        /\ \A k \in DOMAIN v0 : v_d[order0[k]] = v0[k]

C10_Witness ==
    /\ pc = "done"
    /\ v0 = [k \in 0..2 |-> k]
    /\ order0 = [k \in 0..2 |-> (k + 2) % 3]
    /\ v_d = [k \in 0..2 |-> (k + 1) % 3]

\* C3: after idx = sort_indices(keys) and reorder(v, idx), v[k] is the old
\* v[idx[k]], the keys keys[idx[k]] are non-decreasing in k, equal keys keep
\* their original relative order, and keys is not modified.
C3_SortedStable ==
    pc = "r_ret" =>
        /\ DOMAIN order = DOMAIN keys0
        /\ \A k \in DOMAIN v0 : v[k] = v0[order[k]]
        /\ \A k \in DOMAIN order :
               (k + 1) \in DOMAIN order =>
                   /\ keys[order[k]] <= keys[order[k + 1]]
                   /\ keys[order[k]] = keys[order[k + 1]] =>
                          order[k] < order[k + 1]
        /\ keys = keys0

C3_Witness ==
    /\ pc = "r_ret"
    /\ keys0 = [k \in 0..2 |-> IF k = 1 THEN 0 ELSE 1]
    /\ v0 = [k \in 0..2 |-> k]
    /\ order = [k \in 0..2 |-> IF k = 0 THEN 1 ELSE IF k = 1 THEN 0 ELSE 2]
    /\ v = order

\* C6: after remove_intersection(a, b), a is the subsequence of the old a of
\* the elements whose value occurs exactly once in the old a and b taken
\* together, and b is not modified.
C6_KeepsValuesOccurringOnce ==
    pc = "ri_ret" =>
        LET once(x) == Occurrences(a0, x) + Occurrences(b0, x) = 1
        IN  /\ a = SelectSeq(a0, once)
            /\ b = b0

\* C7: remove_intersection(a, b) removes from a the elements whose value is
\* also in b and nothing else.
C7_RemovesOnlyValuesOfB ==
    pc = "ri_ret" =>
        LET notInB(x) == x \notin Range(b0)
        IN  /\ \A x \in Range(a) : x \notin Range(b0)
            /\ a = SelectSeq(a0, notInB)

\* C8: after RemoveDuplicates(v), v holds each distinct value of the old v
\* once, in the order of first occurrences, the returned number is the new
\* length, and a second call changes nothing and returns the same number.
FirstIndex(f, x) == CHOOSE k \in DOMAIN f : f[k] = x /\ \A q \in 1..(k - 1) : f[q] # x

IsDeduplicated(out, in) ==
    /\ Range(out) = Range(in)
    /\ \A q1, q2 \in DOMAIN out :
           q1 < q2 => FirstIndex(in, out[q1]) < FirstIndex(in, out[q2])

C8_FirstOccurrencesKept ==
    /\ \A c \in DOMAIN ret :
           /\ IsDeduplicated(ret[c][1], v_dup0)
           /\ ret[c][2] = Len(ret[c][1])
           /\ c > 1 => ret[c] = ret[c - 1]
    /\ Len(ret) > 0 => v_dup = ret[Len(ret)][1]

C8_Witness ==
    /\ Len(ret) = 2
    /\ v_dup0 = <<1, 0, 1>>
    /\ v_dup = <<1, 0>>
    /\ ret[2][2] = 2

====
